---- MODULE Spec2Model ----
(***************************************************************************)
(* Model of hardware.c: the HAL module locator.                            *)
(*   load()           opens one candidate library, validates its           *)
(*                     descriptor, closes it again on any failure.          *)
(*   hw_get_module()  walks variant_keys[] (board key, arch key, default), *)
(*                     builds the candidate path, calls load(), stops at    *)
(*                     the first success.                                   *)
(* The property store (property_get) and the dynamic loader (dlopen,       *)
(* dlsym, dlclose) are the environment: a key->value store and a set of     *)
(* library images with a reference count per image.                        *)
(***************************************************************************)
EXTENDS Integers, Sequences, FiniteSets, TLC

----------------------------------------------------------------------------
(* Program constants *)

EINVAL == 22

PATH_MAX == 4096

HAL_LIBRARY_PATH == "/system/lib/hw"

HAL_DEFAULT_VARIANT == "default"

HAL_VARIANT_KEYS_COUNT == 3

\* the table with a third key in place of the fallback
variant_keys_NoFallback == << "ro.product.board", "ro.arch", "ro.hardware" >>

\* the table with the fallback first
variant_keys_DefaultFirst == << "default", "ro.product.board", "ro.arch" >>

\* variant_keys[]: C index k is variant_keys[k + 1] here
variant_keys == << "ro.product.board", "ro.arch", HAL_DEFAULT_VARIANT >>

----------------------------------------------------------------------------
(* Bounds of the model *)

\* threads that exist; a specification activates some of them
NumThreads == 2

\* calls of hw_get_module made in one behaviour, over all threads
MaxCalls == 2

Threads == 1..NumThreads

----------------------------------------------------------------------------
(* Pointers.  A handle is what dlopen returns for an image, a descriptor    *)
(* pointer is what dlsym returns for the image's HAL_MODULE_INFO_SYM.       *)

NULL == [kind |-> "null", lib |-> ""]

HandleOf(p) == [kind |-> "handle", lib |-> p]

HmiOf(p) == [kind |-> "hmi", lib |-> p]

\* contents of a local that has not been assigned yet
UninitStr == "(uninitialized)"

UninitPtr == [kind |-> "uninitialized", lib |-> ""]

UninitInt == -1

----------------------------------------------------------------------------
(* String helpers of libc, as the code uses them *)

\* what fits in a buffer of n bytes: n - 1 characters and the terminator
Truncate(s, n) == IF Len(s) > n - 1 THEN SubSeq(s, 1, n - 1) ELSE s

\* strncpy(variant, src, sizeof(variant)-1); variant[sizeof(variant)-1] = 0
Strncpy(src, size) == Truncate(src, size)

\* the format's arguments id and variant exchanged
Snprintf_SwappedArgs(size, mid, var) ==
    Truncate(HAL_LIBRARY_PATH \o "/" \o var \o "." \o mid \o ".so", size)

\* snprintf(path, sizeof(path), "%s/%s.%s.so", HAL_LIBRARY_PATH, id, variant)
Snprintf(size, mid, var) ==
    Truncate(HAL_LIBRARY_PATH \o "/" \o mid \o "." \o var \o ".so", size)

\* strcmp(a, b): 0 when equal
Strcmp(a, b) == IF a = b THEN 0 ELSE 1

----------------------------------------------------------------------------
(* The environment the model is checked in *)

ModuleIds == {"led", "led2"}

PropKeys == {"ro.product.board", "ro.arch"}

PropValuesOf(k) ==
    IF k = "ro.product.board" THEN {"", "trout", "default"}
                              ELSE {"", "ARMV6", "trout"}

AllPropValues == UNION {PropValuesOf(k) : k \in PropKeys}

\* a store holds a value for some of the keys; a value may be empty
PropStores ==
    {f \in UNION {[ks -> AllPropValues] : ks \in SUBSET PropKeys} :
        \A k \in DOMAIN f : f[k] \in PropValuesOf(k)}

\* an image that dlopen cannot open (missing, malformed, unresolved symbols)
NoImage == [opens |-> FALSE, sym |-> FALSE, id |-> ""]

\* an image that opens but does not export HAL_MODULE_INFO_SYM
NoSymImage == [opens |-> TRUE, sym |-> FALSE, id |-> ""]

ModuleImage(mid) == [opens |-> TRUE, sym |-> TRUE, id |-> mid]

\* the files "<MODULE_ID>.variant.so" of the led module, and one of led2
LedPaths == {"/system/lib/hw/led.trout.so",
             "/system/lib/hw/led.ARMV6.so",
             "/system/lib/hw/led.default.so"}

Led2Paths == {"/system/lib/hw/led2.default.so"}

LibPaths == LedPaths \cup Led2Paths

ImagesOf(p) ==
    IF p \in LedPaths
    THEN {NoImage, NoSymImage, ModuleImage("led"), ModuleImage("led2")}
    ELSE {NoImage, ModuleImage("led2")}

AllImages == UNION {ImagesOf(p) : p \in LibPaths}

LibDirs == {f \in [LibPaths -> AllImages] : \A p \in LibPaths : f[p] \in ImagesOf(p)}

----------------------------------------------------------------------------
VARIABLES
    props,      \* the property store: key -> value, for the keys that are set
    libs,       \* the files of HAL_LIBRARY_PATH: path -> image
    refcount,   \* the loader's reference count of each image
    active,     \* the threads that call hw_get_module
    calls,      \* calls of hw_get_module started so far
    pc,         \* per thread: where it is in hw_get_module / load
    id,         \* hw_get_module: parameter id
    status,     \* hw_get_module: local status
    hmi,        \* hw_get_module: local hmi
    handle,     \* hw_get_module: local handle
    i,          \* hw_get_module: local i
    variant,    \* hw_get_module: buffer variant
    path,       \* hw_get_module: buffer path
    l_status,   \* load: local status
    l_handle,   \* load: local handle
    l_hmi,      \* load: local hmi
    module,     \* hw_get_module: *module as the caller sees it
    ret,        \* hw_get_module: the value returned
    log,        \* per thread: the calls to the store and the loader, and
                \* the LOGE lines, of the current hw_get_module call
    pre,        \* per thread: refcount when the current call started
    prev,       \* per thread: id, status, *module and i of its previous call
    given       \* per image: calls that returned 0 with its descriptor

env == << props, libs, active >>

locals == << id, status, hmi, handle, i, variant, path >>

loadLocals == << l_status, l_handle, l_hmi >>

vars == << props, libs, refcount, active, calls, pc, id, status, hmi, handle,
           i, variant, path, l_status, l_handle, l_hmi, module, ret, log, pre,
           prev, given >>

----------------------------------------------------------------------------
(* The property store and the loader *)

\* property_get(key, value, NULL): the value copied out and its length;
\* a key that is not set gives the empty default
property_get(key) ==
    LET v == IF key \in DOMAIN props THEN props[key] ELSE ""
    IN  [len |-> Len(v), value |-> v]

\* a lookup that enters the empty default for a key that was not set
StoreAfterGet_EntersDefault(store, key) ==
    [k \in DOMAIN store \cup {key} |-> IF k \in DOMAIN store THEN store[k] ELSE ""]

\* the store after property_get(key, value, NULL): the call only reads
StoreAfterGet(store, key) == store

ImageAt(p) == IF p \in DOMAIN libs THEN libs[p] ELSE NoImage

\* dlopen(path, RTLD_NOW): a handle, or NULL
dlopen(p) == IF ImageAt(p).opens THEN HandleOf(p) ELSE NULL

\* the loader's count after a successful dlopen
RefAfterOpen(rc, h) == [rc EXCEPT ![h.lib] = @ + 1]

\* dlsym(handle, HAL_MODULE_INFO_SYM_AS_STR): the descriptor, or NULL
dlsym(h) == IF ImageAt(h.lib).sym THEN HmiOf(h.lib) ELSE NULL

\* hmi->id
HmiId(m) == ImageAt(m.lib).id

\* dlclose(handle): the loader's count afterwards.  The count is the balance
\* of opens and closes of the image: a close of a handle that was already
\* released shows as a count below the handles still held
dlclose(rc, h) ==
    IF h.lib \in DOMAIN rc
    THEN [rc EXCEPT ![h.lib] = @ - 1]
    ELSE rc

\* one line of the record of a call: the operation, the index i of the entry
\* it was made for, its argument and its result
LogEntry(op, k, arg, res) == [op |-> op, i |-> k, arg |-> arg, res |-> res]

----------------------------------------------------------------------------
(* Initial states *)

InitThreads ==
    /\ calls = 0
    /\ pc = [t \in Threads |-> "idle"]
    /\ id = [t \in Threads |-> UninitStr]
    /\ status = [t \in Threads |-> UninitInt]
    /\ hmi = [t \in Threads |-> UninitPtr]
    /\ handle = [t \in Threads |-> UninitPtr]
    /\ i = [t \in Threads |-> UninitInt]
    /\ variant = [t \in Threads |-> UninitStr]
    /\ path = [t \in Threads |-> UninitStr]
    /\ l_status = [t \in Threads |-> UninitInt]
    /\ l_handle = [t \in Threads |-> UninitPtr]
    /\ l_hmi = [t \in Threads |-> UninitPtr]
    /\ module = [t \in Threads |-> UninitPtr]
    /\ ret = [t \in Threads |-> UninitInt]
    /\ log = [t \in Threads |-> << >>]
    /\ pre = [t \in Threads |-> refcount]
    /\ prev = [t \in Threads |-> [id |-> UninitStr, ret |-> UninitInt,
                                   module |-> UninitPtr, i |-> UninitInt]]
    /\ given = [p \in DOMAIN libs |-> 0]

Init ==
    /\ props \in PropStores
    /\ libs \in LibDirs
    /\ refcount = [p \in LibPaths |-> 0]
    /\ active = {1}
    /\ InitThreads

----------------------------------------------------------------------------
(* hw_get_module *)

\* what the call of t that has just ended was for and what it gave
CallResult(t) == [id |-> id[t], ret |-> ret[t], module |-> module[t], i |-> i[t]]

\* entry without status = -EINVAL: status keeps what the last call left
Call_StatusNotReset(t, mid) ==
    /\ t \in active
    /\ pc[t] = "idle"
    /\ calls < MaxCalls
    /\ calls' = calls + 1
    /\ id' = [id EXCEPT ![t] = mid]
    /\ hmi' = [hmi EXCEPT ![t] = NULL]
    /\ handle' = [handle EXCEPT ![t] = NULL]
    /\ variant' = [variant EXCEPT ![t] = UninitStr]
    /\ path' = [path EXCEPT ![t] = UninitStr]
    /\ i' = [i EXCEPT ![t] = 0]
    /\ module' = [module EXCEPT ![t] = UninitPtr]
    /\ ret' = [ret EXCEPT ![t] = UninitInt]
    /\ log' = [log EXCEPT ![t] = << >>]
    /\ pre' = [pre EXCEPT ![t] = refcount]
    /\ prev' = [prev EXCEPT ![t] = [id |-> id[t], ret |-> ret[t],
                                    module |-> module[t], i |-> i[t]]]
    /\ pc' = [pc EXCEPT ![t] = "loop"]
    /\ UNCHANGED << env, refcount, loadLocals, given, status >>

\* entry: the declarations and status = -EINVAL, i = 0
Call(t, mid) ==
    /\ t \in active
    /\ pc[t] = "idle"
    /\ calls < MaxCalls
    /\ calls' = calls + 1
    /\ id' = [id EXCEPT ![t] = mid]
    /\ hmi' = [hmi EXCEPT ![t] = NULL]
    /\ handle' = [handle EXCEPT ![t] = NULL]
    /\ variant' = [variant EXCEPT ![t] = UninitStr]
    /\ path' = [path EXCEPT ![t] = UninitStr]
    /\ status' = [status EXCEPT ![t] = -EINVAL]
    /\ i' = [i EXCEPT ![t] = 0]
    /\ module' = [module EXCEPT ![t] = UninitPtr]
    /\ ret' = [ret EXCEPT ![t] = UninitInt]
    /\ log' = [log EXCEPT ![t] = << >>]
    /\ pre' = [pre EXCEPT ![t] = refcount]
    /\ prev' = [prev EXCEPT ![t] = CallResult(t)]
    /\ pc' = [pc EXCEPT ![t] = "loop"]
    /\ UNCHANGED << env, refcount, loadLocals, given >>

\* the loop without its stop at the first success
LoopCond_IgnoresStatus(st, k) == k < HAL_VARIANT_KEYS_COUNT

\* the loop one entry short: the default is never tried
LoopCond_SkipsLast(st, k) == (st # 0) /\ (k < HAL_VARIANT_KEYS_COUNT - 1)

\* the loop giving up at the first failed candidate
LoopCond_StopsOnFailure(st, k) == (k = 0) /\ (st # 0)

\* the loop condition (status != 0) && (i < HAL_VARIANT_KEYS_COUNT)
LoopCond(st, k) == (st # 0) /\ (k < HAL_VARIANT_KEYS_COUNT)

LoopTest(t) ==
    /\ pc[t] = "loop"
    /\ pc' = [pc EXCEPT ![t] = IF LoopCond(status[t], i[t]) THEN "resolve" ELSE "exit"]
    /\ UNCHANGED << env, refcount, calls, locals, loadLocals, module, ret, log, pre, prev, given >>

\* an empty value taken for a variant
Unavailable_Never(r) == FALSE

\* property_get(...) == 0: the entry is skipped
Unavailable(r) == r.len = 0

\* "Get variant or default", then "Construct the path"
Resolve(t) ==
    /\ pc[t] = "resolve"
    /\ LET key == variant_keys[i[t] + 1] IN
       IF Strcmp(key, HAL_DEFAULT_VARIANT) = 0
       THEN LET v == Strncpy(HAL_DEFAULT_VARIANT, PATH_MAX) IN
            /\ props' = props
            /\ variant' = [variant EXCEPT ![t] = v]
            /\ path' = [path EXCEPT ![t] = Snprintf(PATH_MAX, id[t], v)]
            /\ log' = log
            /\ i' = i
            /\ pc' = [pc EXCEPT ![t] = "dlopen"]
       ELSE LET r == property_get(key) IN
            /\ props' = StoreAfterGet(props, key)
            /\ variant' = [variant EXCEPT ![t] = r.value]
            /\ log' = [log EXCEPT ![t] = Append(@, LogEntry("property_get", i[t], key, r.value))]
            /\ IF Unavailable(r)
               THEN \* continue: the for statement's i++
                    /\ path' = path
                    /\ i' = [i EXCEPT ![t] = @ + 1]
                    /\ pc' = [pc EXCEPT ![t] = "loop"]
               ELSE /\ path' = [path EXCEPT ![t] = Snprintf(PATH_MAX, id[t], r.value)]
                    /\ i' = i
                    /\ pc' = [pc EXCEPT ![t] = "dlopen"]
    /\ UNCHANGED << libs, active, refcount, calls, id, status, hmi, handle,
                    loadLocals, module, ret, pre, prev, given >>

----------------------------------------------------------------------------
(* load(id, path, &handle, &hmi) *)

\* handle = dlopen(path, RTLD_NOW); if (handle == NULL) ... goto done
Dlopen(t) ==
    /\ pc[t] = "dlopen"
    /\ LET h == dlopen(path[t]) IN
       /\ l_handle' = [l_handle EXCEPT ![t] = h]
       /\ l_hmi' = [l_hmi EXCEPT ![t] = UninitPtr]
       /\ IF h = NULL
          THEN /\ l_status' = [l_status EXCEPT ![t] = -EINVAL]
               /\ refcount' = refcount
               /\ log' = [log EXCEPT ![t] =
                            Append(Append(@, LogEntry("dlopen", i[t], path[t], "NULL")),
                                   LogEntry("LOGE", i[t], path[t], "OpenFailed"))]
               /\ pc' = [pc EXCEPT ![t] = "done"]
          ELSE /\ l_status' = [l_status EXCEPT ![t] = UninitInt]
               /\ refcount' = RefAfterOpen(refcount, h)
               /\ log' = [log EXCEPT ![t] = Append(@, LogEntry("dlopen", i[t], path[t], "handle"))]
               /\ pc' = [pc EXCEPT ![t] = "dlsym"]
    /\ UNCHANGED << env, calls, locals, module, ret, pre, prev, given >>

\* hmi = dlsym(handle, sym); if (hmi == NULL) ... goto done
Dlsym(t) ==
    /\ pc[t] = "dlsym"
    /\ LET m == dlsym(l_handle[t]) IN
       /\ l_hmi' = [l_hmi EXCEPT ![t] = m]
       /\ IF m = NULL
          THEN /\ l_status' = [l_status EXCEPT ![t] = -EINVAL]
               /\ log' = [log EXCEPT ![t] =
                            Append(Append(@, LogEntry("dlsym", i[t], l_handle[t].lib, "NULL")),
                                   LogEntry("LOGE", i[t], l_handle[t].lib, "SymbolNotFound"))]
               /\ pc' = [pc EXCEPT ![t] = "done"]
          ELSE /\ l_status' = l_status
               /\ log' = [log EXCEPT ![t] = Append(@, LogEntry("dlsym", i[t], l_handle[t].lib, "hmi"))]
               /\ pc' = [pc EXCEPT ![t] = "strcmp"]
    /\ UNCHANGED << env, refcount, calls, locals, l_handle, module, ret, pre, prev, given >>

\* the comparison left out: any descriptor is accepted
IdMismatch_Unchecked(mid, m) == FALSE

\* the check strcmp(id, hmi->id) != 0
IdMismatch(mid, m) == Strcmp(mid, HmiId(m)) # 0

\* "Check that the id matches", else "success"
CheckId(t) ==
    /\ pc[t] = "strcmp"
    /\ IF IdMismatch(id[t], l_hmi[t])
       THEN /\ l_status' = [l_status EXCEPT ![t] = -EINVAL]
            /\ log' = [log EXCEPT ![t] = Append(@, LogEntry("LOGE", i[t], l_hmi[t].lib, "IdMismatch"))]
       ELSE /\ l_status' = [l_status EXCEPT ![t] = 0]
            /\ log' = log
    /\ pc' = [pc EXCEPT ![t] = "done"]
    /\ UNCHANGED << env, refcount, calls, locals, l_handle, l_hmi, module, ret, pre, prev, given >>

\* the cleanup without its hmi = NULL
LoadFailed_Never(st) == FALSE

\* done: if (status != 0) { hmi = NULL; ...
LoadFailed(st) == st # 0

\* the cleanup without its dlclose
LoadCloses_Never(st, h) == FALSE

\* the cleanup made whatever the status
LoadCloses_Always(st, h) == h # NULL

\* the cleanup without its test handle != NULL
LoadCloses_Unguarded(st, h) == st # 0

\* the cleanup with its test of status inverted
LoadCloses_Inverted(st, h) == st = 0 /\ h # NULL

\* ... if (handle != NULL) { dlclose(handle); handle = NULL; } }
LoadCloses(st, h) == st # 0 /\ h # NULL

\* the cleanup without its handle = NULL
HandleAfterCleanup_Kept(closes, h) == h

\* handle = NULL after the dlclose; *pHandle = handle
HandleAfterCleanup(closes, h) == IF closes THEN NULL ELSE h

\* done: cleanup, *pHmi = hmi, *pHandle = handle, return status;
\* back in hw_get_module: status = load(...), then the for statement's i++
LoadDone(t) ==
    /\ pc[t] = "done"
    /\ LET failed == LoadFailed(l_status[t])
           closes == LoadCloses(l_status[t], l_handle[t])
           ret_s == IF l_status[t] = 0 THEN "success" ELSE "failure"
           m == IF failed THEN NULL ELSE l_hmi[t]
           h == HandleAfterCleanup(closes, l_handle[t])
       IN
       /\ refcount' = IF closes THEN dlclose(refcount, l_handle[t]) ELSE refcount
       /\ l_hmi' = [l_hmi EXCEPT ![t] = m]
       /\ l_handle' = [l_handle EXCEPT ![t] = h]
       /\ hmi' = [hmi EXCEPT ![t] = m]
       /\ handle' = [handle EXCEPT ![t] = h]
       /\ status' = [status EXCEPT ![t] = l_status[t]]
       /\ log' = [log EXCEPT ![t] =
                    IF closes
                    THEN Append(Append(@, LogEntry("dlclose", i[t], l_handle[t].lib, "")),
                                LogEntry("load", i[t], path[t], ret_s))
                    ELSE Append(@, LogEntry("load", i[t], path[t], ret_s))]
    /\ i' = [i EXCEPT ![t] = @ + 1]
    /\ pc' = [pc EXCEPT ![t] = "loop"]
    /\ UNCHANGED << env, calls, id, variant, path, l_status, module, ret, pre, prev, given >>

----------------------------------------------------------------------------
(* hw_get_module, after the loop *)

\* the cleanup after the loop made whatever the status
ExitCloses_Always(st, h) == h # NULL

\* if (status != 0) { ... if (handle != NULL) dlclose(handle); }
ExitCloses(st, h) == st # 0 /\ h # NULL

\* if (status != 0) { hmi = NULL; if (handle != NULL) dlclose(handle); }
\* *module = hmi; return status;
Exit(t) ==
    /\ pc[t] = "exit"
    /\ LET failed == status[t] # 0
           closes == ExitCloses(status[t], handle[t])
           m == IF failed THEN NULL ELSE hmi[t]
       IN
       /\ refcount' = IF closes THEN dlclose(refcount, handle[t]) ELSE refcount
       /\ hmi' = [hmi EXCEPT ![t] = m]
       /\ module' = [module EXCEPT ![t] = m]
       /\ ret' = [ret EXCEPT ![t] = status[t]]
       /\ given' = IF m.kind = "hmi" THEN [given EXCEPT ![m.lib] = @ + 1] ELSE given
       /\ log' = [log EXCEPT ![t] =
                    IF closes THEN Append(@, LogEntry("dlclose", i[t], handle[t].lib, ""))
                    ELSE @]
    /\ pc' = [pc EXCEPT ![t] = "idle"]
    /\ UNCHANGED << env, calls, id, status, handle, i, variant, path, loadLocals,
                    pre, prev >>

----------------------------------------------------------------------------
Next ==
    \E t \in Threads :
        \/ \E mid \in ModuleIds : Call(t, mid)
        \/ LoopTest(t)
        \/ Resolve(t)
        \/ Dlopen(t)
        \/ Dlsym(t)
        \/ CheckId(t)
        \/ LoadDone(t)
        \/ Exit(t)

Spec == Init /\ [][Next]_vars

\* a step of the call thread t is in: hw_get_module has no suspension point
\* and runs on, so a thread inside a call is not left waiting for ever
Step(t) ==
    \/ LoopTest(t)
    \/ Resolve(t)
    \/ Dlopen(t)
    \/ Dlsym(t)
    \/ CheckId(t)
    \/ LoadDone(t)
    \/ Exit(t)

FairSpec == Spec /\ \A t \in Threads : WF_vars(Step(t))

----------------------------------------------------------------------------
(* Two threads calling hw_get_module at the same time.  Every step above is *)
(* one call of the loader or one piece of thread-local code, so the         *)
(* interleavings of the steps are those of threads over a loader whose      *)
(* dlopen and dlclose are atomic and counted.                               *)
(* The ids "led" and "led.trout" meet in one file: led + "trout.default"    *)
(* and led.trout + "default" both give led.trout.default.so.                *)

ConcIds == {"led", "led.trout"}

SharedLib == "/system/lib/hw/led.trout.default.so"

ConcPaths == {SharedLib, "/system/lib/hw/led.default.so"}

ConcStores ==
    {f \in UNION {[ks -> {"trout.default", "default"}] : ks \in SUBSET PropKeys} :
        /\ "ro.product.board" \in DOMAIN f => f["ro.product.board"] = "trout.default"
        /\ "ro.arch" \in DOMAIN f => f["ro.arch"] = "default"}

ConcImagesOf(p) ==
    IF p = SharedLib
    THEN {NoImage, NoSymImage, ModuleImage("led"), ModuleImage("led.trout")}
    ELSE {NoImage, ModuleImage("led")}

ConcDirs ==
    {f \in [ConcPaths -> UNION {ConcImagesOf(p) : p \in ConcPaths}] :
        \A p \in ConcPaths : f[p] \in ConcImagesOf(p)}

InitConc ==
    /\ props \in ConcStores
    /\ libs \in ConcDirs
    /\ refcount = [p \in ConcPaths |-> 0]
    /\ active = {1, 2}
    /\ InitThreads

NextConc ==
    \E t \in Threads :
        \/ \E mid \in ConcIds : Call(t, mid)
        \/ LoopTest(t)
        \/ Resolve(t)
        \/ Dlopen(t)
        \/ Dlsym(t)
        \/ CheckId(t)
        \/ LoadDone(t)
        \/ Exit(t)

SpecConc == InitConc /\ [][NextConc]_vars

----------------------------------------------------------------------------
(* Vocabulary of the properties *)

\* thread t has returned from a call of hw_get_module
Returned(t) == pc[t] = "idle" /\ ret[t] # UninitInt

\* the priority list as the specification states it: board key, arch key,
\* default (written out here, independently of variant_keys)
EntryIndices == 0..2

PriorityKey(k) == IF k = 0 THEN "ro.product.board" ELSE "ro.arch"

IsDefaultEntry(k) == k = 2

\* a key entry is available when its key is set to a non-empty value
EntryAvailable(k) ==
    IsDefaultEntry(k) \/ (PriorityKey(k) \in DOMAIN props /\ props[PriorityKey(k)] # "")

EntryVariant(k) == IF IsDefaultEntry(k) THEN "default" ELSE props[PriorityKey(k)]

CandidatePath(mid, k) == "/system/lib/hw/" \o mid \o "." \o EntryVariant(k) \o ".so"

\* the library at p opens, exports the descriptor and carries id mid
LibValidates(mid, p) ==
    /\ p \in DOMAIN libs
    /\ libs[p].opens
    /\ libs[p].sym
    /\ libs[p].id = mid

EntryValidates(mid, k) == EntryAvailable(k) /\ LibValidates(mid, CandidatePath(mid, k))

ValidEntries(mid) == {k \in EntryIndices : EntryValidates(mid, k)}

LogPositions(t) == 1..Len(log[t])

\* positions of the dlopen calls of the current call that returned a handle
OpenedAt(t) == {p \in LogPositions(t) : log[t][p].op = "dlopen" /\ log[t][p].res = "handle"}

ClosedAt(t) == {p \in LogPositions(t) : log[t][p].op = "dlclose"}

LogHas(t, op, res) == \E p \in LogPositions(t) : log[t][p].op = op /\ log[t][p].res = res

OpenHandles == [p \in LibPaths |-> refcount[p]]

----------------------------------------------------------------------------
(* C1: whenever hw_get_module returns 0, *module is a descriptor whose id   *)
(* equals the requested id.                                                 *)
C1_ReturnedIdMatches ==
    \A t \in Threads :
        (Returned(t) /\ ret[t] = 0) =>
            /\ module[t].kind = "hmi"
            /\ HmiId(module[t]) = id[t]

\* a success after an earlier candidate was rejected for its id
C1_Witness ==
    \E t \in Threads :
        /\ Returned(t) /\ ret[t] = 0
        /\ LogHas(t, "LOGE", "IdMismatch")
        /\ HmiId(module[t]) = id[t]

(* C2: when no candidate validates, hw_get_module fails and leaves every    *)
(* image's count as it was: each dlopen that gave a handle has its dlclose. *)
C2_FailureLeavesNoHandle ==
    \A t \in Threads :
        (Returned(t) /\ ValidEntries(id[t]) = {}) =>
            /\ ret[t] # 0
            /\ refcount = pre[t]
            /\ Cardinality(OpenedAt(t)) = Cardinality(ClosedAt(t))

\* a failed call that had opened, and closed, two candidates
C2_Witness ==
    \E t \in Threads :
        /\ Returned(t) /\ ValidEntries(id[t]) = {}
        /\ ret[t] # 0
        /\ Cardinality(OpenedAt(t)) >= 2
        /\ refcount = pre[t]

\* what hw_get_module writes for its caller: *module (the return value aside)
CallerOutputs(t) == {module[t]}

(* C3: on success the caller is handed the open handle together with the    *)
(* descriptor.                                                              *)
C3_HandleHandedToCaller ==
    \A t \in Threads :
        (Returned(t) /\ ret[t] = 0) =>
            /\ \E d \in CallerOutputs(t) : d.kind = "hmi"
            /\ \E h \in CallerOutputs(t) : h.kind = "handle" /\ h = handle[t]

----------------------------------------------------------------------------
\* the entry whose load made the loop stop: i was incremented once after it
SucceededEntry(t) == i[t] - 1

FirstValidEntry(mid) ==
    CHOOSE k \in ValidEntries(mid) : \A j \in ValidEntries(mid) : k <= j

(* C4: priority is positional over board key, arch key, default: a          *)
(* successful call returns the descriptor of the lowest-index entry that is *)
(* available and validates; when a board or arch variant validates, the     *)
(* default entry is not the one returned.                                   *)
C4_FirstValidEntryWins ==
    \A t \in Threads :
        (Returned(t) /\ ret[t] = 0) =>
            /\ ValidEntries(id[t]) # {}
            /\ SucceededEntry(t) = FirstValidEntry(id[t])
            /\ module[t] = HmiOf(CandidatePath(id[t], FirstValidEntry(id[t])))
            /\ (ValidEntries(id[t]) \cap {0, 1} # {} => SucceededEntry(t) \in {0, 1})

\* a success on a device-specific library while a different default library
\* validates as well
C4_Witness ==
    \E t \in Threads :
        /\ Returned(t) /\ ret[t] = 0
        /\ 2 \in ValidEntries(id[t])
        /\ SucceededEntry(t) = 1
        /\ module[t].lib # CandidatePath(id[t], 2)

SuccessAt(t) == {p \in LogPositions(t) : log[t][p].op = "load" /\ log[t][p].res = "success"}

(* C5: once a load succeeds nothing more is done in the call: no later      *)
(* entry is resolved, no later candidate is opened or closed, at most one   *)
(* load succeeds, and the handle of the success stays open.                 *)
C5_StopsAtFirstSuccess ==
    \A t \in Threads :
        /\ \A p \in SuccessAt(t) : p = Len(log[t])
        /\ Cardinality(SuccessAt(t)) <= 1
        /\ (SuccessAt(t) # {} /\ pc[t] \in {"loop", "exit", "idle"}) =>
                /\ i[t] = log[t][Len(log[t])].i + 1
                /\ status[t] = 0
                /\ handle[t] = HandleOf(log[t][Len(log[t])].arg)
                /\ refcount[handle[t].lib] = pre[t][handle[t].lib] + 1

\* a call that succeeded on the board entry while the arch key is set and
\* the default library exists: two entries were left untouched
C5_Witness ==
    \E t \in Threads :
        /\ Returned(t) /\ ret[t] = 0
        /\ SucceededEntry(t) = 0
        /\ EntryAvailable(1)
        /\ ImageAt(CandidatePath(id[t], 2)).opens
        /\ \A p \in LogPositions(t) : log[t][p].i = 0

LoaderOps == {"dlopen", "dlsym", "dlclose", "LOGE", "load"}

\* thread t takes the step that resolves an entry whose key is unset or empty
SkipStep(t) ==
    /\ pc[t] = "resolve"
    /\ pc'[t] # "resolve"
    /\ ~EntryAvailable(i[t])

(* C6: for an entry whose key is absent or empty no path is constructed and *)
(* no dlopen, dlsym or dlclose is made; the loop goes on to the next entry  *)
(* with status and handle unchanged.                                        *)
C6_UnavailableEntryUntouched ==
    /\ [](\A t \in Threads : \A p \in LogPositions(t) :
            log[t][p].op \in LoaderOps => EntryAvailable(log[t][p].i))
    /\ [][\A t \in Threads : SkipStep(t) =>
            /\ pc'[t] = "loop"
            /\ i'[t] = i[t] + 1
            /\ path'[t] = path[t]
            /\ status'[t] = status[t]
            /\ handle'[t] = handle[t]
            /\ refcount' = refcount]_vars

\* a finished call that skipped an entry whose key is set to the empty value
C6_Witness ==
    \E t \in Threads : \E k \in {0, 1} :
        /\ Returned(t)
        /\ PriorityKey(k) \in DOMAIN props /\ props[PriorityKey(k)] = ""
        /\ \E p \in LogPositions(t) : log[t][p].op = "property_get" /\ log[t][p].i = k
        /\ \E p \in LogPositions(t) : log[t][p].op = "dlopen" /\ log[t][p].i = k + 1

\* handles the current call of t has opened and not closed
LiveHandles(t) == Cardinality(OpenedAt(t)) - Cardinality(ClosedAt(t))

(* C7: a candidate that opens but fails validation is closed before the     *)
(* next candidate is opened and the loop goes on to the next entry; at most *)
(* one handle opened by a call is live at any moment.                       *)
C7_RejectedCandidateClosedFirst ==
    \A t \in Threads :
        /\ LiveHandles(t) \in {0, 1}
        /\ pc[t] = "dlopen" => LiveHandles(t) = 0
        /\ \A p \in OpenedAt(t) :
              ~LibValidates(id[t], log[t][p].arg) =>
                /\ \A q \in OpenedAt(t) : q > p =>
                      \E r \in ClosedAt(t) : p < r /\ r < q /\ log[t][r].arg = log[t][p].arg
                /\ (Returned(t) /\ log[t][p].i < 2) =>
                      \E q \in LogPositions(t) : q > p /\ log[t][q].i = log[t][p].i + 1

\* a call that opened a second candidate after rejecting the first, one for
\* its missing symbol and one for its id
C7_Witness ==
    \E t \in Threads :
        /\ LogHas(t, "LOGE", "SymbolNotFound")
        /\ LogHas(t, "LOGE", "IdMismatch")
        /\ Cardinality(OpenedAt(t)) = 3
        /\ LiveHandles(t) = 1

(* C8: hw_get_module returns 0 exactly when some entry is available and    *)
(* its library opens, exports the descriptor and carries the requested id;  *)
(* with exactly one such candidate it returns 0 and a descriptor of that id.*)
C8_SuccessIffValidCandidate ==
    \A t \in Threads :
        Returned(t) =>
            /\ (ret[t] = 0) <=> (ValidEntries(id[t]) # {})
            /\ Cardinality({CandidatePath(id[t], k) : k \in ValidEntries(id[t])}) = 1 =>
                  /\ ret[t] = 0
                  /\ module[t].kind = "hmi"
                  /\ ImageAt(module[t].lib).id = id[t]

\* a success whose only valid candidate is the default library, after two
\* available device-specific candidates failed
C8_Witness ==
    \E t \in Threads :
        /\ Returned(t) /\ ret[t] = 0
        /\ ValidEntries(id[t]) = {2}
        /\ EntryAvailable(0) /\ EntryAvailable(1)

FailuresAt(t) == {p \in LogPositions(t) : log[t][p].op = "LOGE"}

(* C9: OpenFailed, SymbolNotFound and IdMismatch never end the call: the    *)
(* next entry follows, so failure is returned only after the default entry  *)
(* has been attempted; the caller then gets NULL and -EINVAL whatever the   *)
(* kinds of the failures were.                                              *)
C9_FailureOnlyAfterDefault ==
    \A t \in Threads :
        /\ Returned(t) =>
              \A p \in FailuresAt(t) : log[t][p].i < 2 =>
                  \E q \in LogPositions(t) : q > p /\ log[t][q].i = log[t][p].i + 1
        /\ (Returned(t) /\ ret[t] # 0) =>
              /\ module[t] = NULL
              /\ ret[t] = -22
              /\ \E p \in LogPositions(t) :
                    /\ log[t][p].op = "dlopen"
                    /\ log[t][p].i = 2
                    /\ log[t][p].arg = CandidatePath(id[t], 2)

\* a failed call whose three attempts failed in the three different ways
C9_Witness ==
    \E t \in Threads :
        /\ Returned(t) /\ ret[t] = -22 /\ module[t] = NULL
        /\ LogHas(t, "LOGE", "OpenFailed")
        /\ LogHas(t, "LOGE", "SymbolNotFound")
        /\ LogHas(t, "LOGE", "IdMismatch")

TroutLib == "/system/lib/hw/led.trout.so"

DefaultLib == "/system/lib/hw/led.default.so"

\* the scenario: board key "trout", arch key unset, led.trout carrying id
\* "led2", led.default carrying id "led", and a finished call for "led"
LedScenario(t) ==
    /\ "ro.product.board" \in DOMAIN props /\ props["ro.product.board"] = "trout"
    /\ "ro.arch" \notin DOMAIN props
    /\ libs[TroutLib] = [opens |-> TRUE, sym |-> TRUE, id |-> "led2"]
    /\ libs[DefaultLib] = [opens |-> TRUE, sym |-> TRUE, id |-> "led"]
    /\ id[t] = "led"
    /\ Returned(t)

IsOpenOrClose(e) == e.op \in {"dlopen", "dlclose"}

(* C10: in the scenario the call opens led.trout, closes it for IdMismatch, *)
(* makes no loader operation for the arch entry, opens led.default, and     *)
(* returns 0 with a descriptor of id "led"; led.default stays open and      *)
(* led.trout is closed.                                                     *)
C10_LedScenarioTrace ==
    \A t \in Threads :
        LedScenario(t) =>
            /\ SelectSeq(log[t], IsOpenOrClose) =
                  << [op |-> "dlopen", i |-> 0, arg |-> TroutLib, res |-> "handle"],
                     [op |-> "dlclose", i |-> 0, arg |-> TroutLib, res |-> ""],
                     [op |-> "dlopen", i |-> 2, arg |-> DefaultLib, res |-> "handle"] >>
            /\ {log[t][p].res : p \in FailuresAt(t)} = {"IdMismatch"}
            /\ \A p \in LogPositions(t) : log[t][p].i = 1 => log[t][p].op = "property_get"
            /\ ret[t] = 0
            /\ module[t].kind = "hmi"
            /\ ImageAt(module[t].lib).id = "led"
            /\ module[t].lib = DefaultLib
            /\ refcount[DefaultLib] = pre[t][DefaultLib] + 1
            /\ refcount[TroutLib] = pre[t][TroutLib]

\* the scenario's call has returned
C10_Witness == \E t \in Threads : LedScenario(t) /\ ret[t] = 0

----------------------------------------------------------------------------
\* t has returned from a call that followed an earlier call of t for the same id
SecondCallSameId(t) ==
    /\ Returned(t)
    /\ prev[t].ret # UninitInt
    /\ prev[t].id = id[t]

(* C11: two sequential calls for the same id, with the store and the        *)
(* libraries unchanged, return the same status and, on success, descriptors *)
(* of the same id taken from the same entry; the opens and closes of the    *)
(* first call do not change what the second returns.                        *)
C11_SecondCallSameResult ==
    \A t \in Threads :
        SecondCallSameId(t) =>
            /\ ret[t] = prev[t].ret
            /\ ret[t] = 0 =>
                  /\ module[t].kind = "hmi" /\ prev[t].module.kind = "hmi"
                  /\ ImageAt(module[t].lib).id = ImageAt(prev[t].module.lib).id
                  /\ i[t] = prev[t].i
                  /\ module[t] = prev[t].module

\* a second successful call for the same id whose first call had closed a
\* rejected candidate and left the accepted library open
C11_Witness ==
    \E t \in Threads :
        /\ SecondCallSameId(t)
        /\ ret[t] = 0 /\ prev[t].ret = 0
        /\ ClosedAt(t) # {}
        /\ refcount[module[t].lib] = 2

----------------------------------------------------------------------------
\* what a call for mid returns when it runs alone
AloneStatus(mid) == IF ValidEntries(mid) # {} THEN 0 ELSE -22

AloneModule(mid) ==
    IF ValidEntries(mid) # {}
    THEN [kind |-> "hmi", lib |-> CandidatePath(mid, FirstValidEntry(mid))]
    ELSE [kind |-> "null", lib |-> ""]

Quiescent == \A t \in Threads : pc[t] = "idle"

(* C12: under every interleaving of two threads calling hw_get_module for   *)
(* the same or different ids, each call returns what it returns run alone;  *)
(* no image's count is negative; a close never takes an image's count below *)
(* the number of calls that returned its descriptor; and when no call is    *)
(* running each count equals that number.                                   *)
C12_ConcurrentCallsIndependent ==
    /\ \A t \in Threads :
          Returned(t) => ret[t] = AloneStatus(id[t]) /\ module[t] = AloneModule(id[t])
    /\ \A p \in DOMAIN refcount : refcount[p] >= 0 /\ refcount[p] >= given[p]
    /\ Quiescent => refcount = given

\* one thread has returned the descriptor of an image while the other, for
\* another id, holds the same image open and is about to close it as rejected
C12_Witness ==
    \E t \in Threads : \E u \in Threads :
        /\ t # u
        /\ Returned(t) /\ ret[t] = 0
        /\ id[u] # id[t]
        /\ pc[u] = "done"
        /\ l_status[u] # 0
        /\ l_handle[u].lib = module[t].lib
        /\ refcount[module[t].lib] = 2

----------------------------------------------------------------------------
\* load has just returned to the loop of thread t: l_status, l_handle and
\* l_hmi hold its return value, *pHandle and *pHmi
AtLoadReturn(t) ==
    /\ pc[t] = "loop"
    /\ Len(log[t]) > 0
    /\ log[t][Len(log[t])].op = "load"

\* positions of the dlclose calls made for entry k
ClosedFor(t, k) == {p \in ClosedAt(t) : log[t][p].i = k}

OpenedFor(t, k) == {p \in OpenedAt(t) : log[t][p].i = k}

(* C13: load has no partial success: when it returns, status is 0 exactly   *)
(* when the handle output is non-null and exactly when the descriptor       *)
(* output is non-null; with 0 the handle is still open and no close was     *)
(* made; otherwise both outputs are null and a handle that was opened has   *)
(* been closed.                                                             *)
C13_LoadAllOrNothing ==
    \A t \in Threads :
        AtLoadReturn(t) =>
            LET k == log[t][Len(log[t])].i IN
            /\ (l_status[t] = 0) <=> (l_handle[t] # NULL)
            /\ (l_status[t] = 0) <=> (l_hmi[t] # NULL)
            /\ handle[t] = l_handle[t] /\ hmi[t] = l_hmi[t] /\ status[t] = l_status[t]
            /\ l_status[t] = 0 =>
                  /\ l_handle[t].kind = "handle" /\ l_hmi[t].kind = "hmi"
                  /\ l_hmi[t].lib = l_handle[t].lib
                  /\ ClosedFor(t, k) = {}
                  /\ refcount[l_handle[t].lib] = pre[t][l_handle[t].lib] + 1
            /\ l_status[t] # 0 =>
                  /\ Cardinality(ClosedFor(t, k)) = Cardinality(OpenedFor(t, k))
                  /\ refcount = pre[t]

\* load returned failure for a candidate it had opened, and found the symbol of
C13_Witness ==
    \E t \in Threads :
        /\ AtLoadReturn(t)
        /\ l_status[t] # 0
        /\ LogHas(t, "LOGE", "IdMismatch")
        /\ OpenedFor(t, log[t][Len(log[t])].i) # {}
        /\ l_hmi[t] = NULL /\ l_handle[t] = NULL

----------------------------------------------------------------------------
\* the current call of t has opened lib and made no close since
HoldsOpen(t, lib) ==
    \E p \in OpenedAt(t) :
        /\ log[t][p].arg = lib
        /\ \A q \in ClosedAt(t) : q < p
        /\ \A q \in OpenedAt(t) : q <= p

\* d is NULL or not yet assigned
NoDescriptor(d) == d.kind # "hmi"

(* C14: a descriptor is not read or returned after its handle was released: *)
(* load reads hmi->id only while the handle is open, its descriptor output  *)
(* is null on every path that closed the handle, and *module is never a     *)
(* descriptor of a library this call has closed.                            *)
C14_DescriptorOnlyWhileOpen ==
    \A t \in Threads :
        /\ pc[t] = "strcmp" =>
              /\ l_hmi[t].kind = "hmi"
              /\ l_handle[t] = [kind |-> "handle", lib |-> l_hmi[t].lib]
              /\ HoldsOpen(t, l_hmi[t].lib)
              /\ refcount[l_hmi[t].lib] >= 1
        /\ (AtLoadReturn(t) /\ ClosedFor(t, log[t][Len(log[t])].i) # {}) =>
              NoDescriptor(l_hmi[t]) /\ NoDescriptor(hmi[t])
        /\ ~NoDescriptor(hmi[t]) =>
              HoldsOpen(t, hmi[t].lib) /\ refcount[hmi[t].lib] >= 1
        /\ ~NoDescriptor(module[t]) =>
              HoldsOpen(t, module[t].lib) /\ refcount[module[t].lib] >= 1

\* a descriptor returned by a call that had closed another candidate before
C14_Witness ==
    \E t \in Threads :
        /\ Returned(t)
        /\ ~NoDescriptor(module[t])
        /\ \E q \in ClosedAt(t) : log[t][q].arg # module[t].lib
        /\ LogHas(t, "LOGE", "IdMismatch")

----------------------------------------------------------------------------
\* positions of the dlopen calls of the current call that returned NULL
OpenFailedAt(t) == {p \in LogPositions(t) : log[t][p].op = "dlopen" /\ log[t][p].res = "NULL"}

\* the LOGE lines of a candidate rejected after it was opened
RejectedAt(t) ==
    {p \in FailuresAt(t) : log[t][p].res \in {"SymbolNotFound", "IdMismatch"}}

(* C15: when dlopen fails there is no handle and no dlclose is made for     *)
(* that attempt; dlclose is made only for an attempt whose dlopen gave a    *)
(* handle and whose symbol lookup or id comparison then failed.             *)
C15_CloseOnlyAfterOpen ==
    \A t \in Threads :
        /\ \A p \in OpenFailedAt(t) :
              /\ ClosedFor(t, log[t][p].i) = {}
              /\ OpenedFor(t, log[t][p].i) = {}
              /\ (pc[t] = "done" /\ log[t][p].i = i[t]) => l_handle[t] = NULL
        /\ \A q \in ClosedAt(t) :
              \E p \in OpenedFor(t, log[t][q].i) : \E r \in RejectedAt(t) :
                  /\ p < r /\ r < q
                  /\ log[t][p].arg = log[t][q].arg
                  /\ log[t][r].i = log[t][q].i

\* a finished call with one attempt that failed to open and one that was
\* opened, rejected and closed
C15_Witness ==
    \E t \in Threads :
        /\ Returned(t)
        /\ OpenFailedAt(t) # {}
        /\ ClosedAt(t) # {}
        /\ \A p \in OpenFailedAt(t) : ClosedFor(t, log[t][p].i) = {}

----------------------------------------------------------------------------
\* positions of all dlopen calls of the current call: the load attempts
AttemptsAt(t) == {p \in LogPositions(t) : log[t][p].op = "dlopen"}

InCall(t) == pc[t] # "idle"

\* the record of a call visits the entries in increasing index, each once
VisitsInOrder(t) ==
    /\ \A p \in LogPositions(t) : \A q \in LogPositions(t) :
          p < q => log[t][p].i <= log[t][q].i
    /\ \A p \in AttemptsAt(t) : \A q \in AttemptsAt(t) :
          p < q => log[t][p].i < log[t][q].i
    /\ \A p \in LogPositions(t) : log[t][p].i \in 0..2

(* C16: every call ends, Found or Exhausted, after at most 3 iterations of  *)
(* the loop, which visits the entries in strictly increasing index and none *)
(* twice; a call that does not succeed on an earlier entry attempts the     *)
(* default, so every call makes at least one load attempt.                  *)
C16_TerminatesWithinThreeEntries ==
    /\ \A t \in Threads : InCall(t) ~> Returned(t)
    /\ [](\A t \in Threads :
            /\ InCall(t) => i[t] \in 0..3
            /\ VisitsInOrder(t)
            /\ Returned(t) =>
                  /\ i[t] \in 1..3
                  /\ \/ ret[t] = 0 /\ SuccessAt(t) # {}
                     \/ ret[t] # 0 /\ SuccessAt(t) = {} /\ i[t] = 3
                  /\ AttemptsAt(t) # {}
                  /\ (\A p \in SuccessAt(t) : log[t][p].i = 2) =>
                        \E p \in AttemptsAt(t) : log[t][p].i = 2)

\* a call with no key set has ended after three iterations with the default
\* as its only attempt
C16_Witness ==
    \E t \in Threads :
        /\ Returned(t)
        /\ i[t] = 3
        /\ DOMAIN props = {}
        /\ Cardinality(AttemptsAt(t)) = 1

----------------------------------------------------------------------------
\* positions of the loader calls that change an image's count
CountOpsAt(t) == OpenedAt(t) \cup ClosedAt(t)

\* the dlclose at q releases the handle of the dlopen just before it, with
\* no other open or close in between
ClosesOpenHandle(t, q) ==
    \E p \in OpenedAt(t) :
        /\ p < q
        /\ log[t][p].arg = log[t][q].arg
        /\ \A r \in CountOpsAt(t) : ~(p < r /\ r < q)

(* C17: a handle opened during a call is closed at most once: when the loop *)
(* of hw_get_module ends with a non-zero status its handle is NULL, so the  *)
(* dlclose after the loop is not made on a handle load already released.    *)
C17_NoSecondClose ==
    \A t \in Threads :
        /\ (pc[t] = "exit" /\ status[t] # 0) => handle[t] = NULL
        /\ \A q \in ClosedAt(t) : ClosesOpenHandle(t, q) /\ log[t][q].i < 3
        /\ \A p \in DOMAIN refcount : refcount[p] >= given[p]

\* the loop has ended in failure right after load closed the default candidate
C17_Witness ==
    \E t \in Threads :
        /\ pc[t] = "exit"
        /\ status[t] # 0
        /\ ClosedFor(t, 2) # {}
        /\ handle[t] = NULL

----------------------------------------------------------------------------
\* the counts rc with one more reference to lib
OneMore(rc, lib) == [p \in DOMAIN rc |-> IF p = lib THEN rc[p] + 1 ELSE rc[p]]

(* C18: a successful call leaves the count of the library it chose exactly  *)
(* one higher than before the call and every other count unchanged; nothing *)
(* closes a handle after a success, so after n successful calls in sequence *)
(* for one id the count of that library is n higher.                        *)
C18_SuccessAddsOneReference ==
    \A t \in Threads :
        /\ (Returned(t) /\ ret[t] = 0) =>
              refcount = OneMore(pre[t], module[t].lib)
        /\ (Returned(t) /\ ret[t] # 0) => refcount = pre[t]
        /\ Returned(t) => refcount = given
        /\ (SecondCallSameId(t) /\ ret[t] = 0) =>
              /\ prev[t].ret = 0
              /\ refcount[module[t].lib] = pre[t][module[t].lib] + 1
              /\ pre[t][module[t].lib] >= 1

\* the second of two successful calls for one id has returned: the count of
\* its library is 2, another library it opened and closed is at 0
C18_Witness ==
    \E t \in Threads :
        /\ SecondCallSameId(t) /\ ret[t] = 0
        /\ refcount[module[t].lib] = 2
        /\ \E q \in ClosedAt(t) : refcount[log[t][q].arg] = 0

----------------------------------------------------------------------------
\* the record of the current call shows the entries in the order board key,
\* arch key, default
ConsultsInListOrder(t) ==
    \A p \in LogPositions(t) :
        /\ log[t][p].op = "property_get" =>
              log[t][p].i \in {0, 1} /\ log[t][p].arg = PriorityKey(log[t][p].i)
        /\ (log[t][p].op = "dlopen" /\ log[t][p].i = 2) =>
              log[t][p].arg = CandidatePath(id[t], 2)
        /\ (log[t][p].op = "dlopen" /\ log[t][p].i < 2) =>
              log[t][p].arg = CandidatePath(id[t], log[t][p].i)

(* C19: no step of load or hw_get_module writes the configuration store or  *)
(* the priority list: over any sequence of calls, successful or failed, the *)
(* key-to-value mapping stays as it was and the entries are consulted in    *)
(* the order board key, arch key, default.                                  *)
C19_StoreAndListOnlyRead ==
    /\ [][props' = props]_vars
    /\ [](\A t \in Threads : ConsultsInListOrder(t))

\* a second call has returned, one of the two calls failed and one succeeded,
\* and a key that is not set was looked up
C19_Witness ==
    \E t \in Threads : \E k \in {0, 1} :
        /\ Returned(t)
        /\ prev[t].ret # UninitInt
        /\ (ret[t] = 0) # (prev[t].ret = 0)
        /\ PriorityKey(k) \notin DOMAIN props
        /\ \E p \in LogPositions(t) : log[t][p].op = "property_get" /\ log[t][p].i = k

====
